---------------------------- MODULE Spec2Model ----------------------------
(***************************************************************************)
(* A model of the droplet simulator of script.js: the Droplet3D            *)
(* integration and surface collision, and SimulatorAdvanced's commands,    *)
(* animation cycle, history buffer and replay cursor.                      *)
(*                                                                         *)
(* Numbers.  A JavaScript number is modelled in fixed point: the integer n *)
(* stands for n / SCALE.  Products and quotients are rounded toward zero.  *)
(* The three non-finite numbers are kept apart from the finite ones (NaN,  *)
(* PosInf, NegInf) and follow IEEE-754: NaN propagates through arithmetic  *)
(* and every ordered comparison with NaN is false.  Negative zero is not   *)
(* told apart from zero.                                                   *)
(*                                                                         *)
(* Rendering state (meshes, the replay pool, DOM text) is not modelled: it *)
(* never flows back into the fields modelled here.                         *)
(***************************************************************************)
EXTENDS Integers, Sequences, FiniteSets, TLC

---------------------------------------------------------------------------
(* Bounds of the exploration. *)

\* toggle-style commands (start, pause, reset, toggleRain, toggleReplay, scrub) per run
MaxCmds == 3
\* droplets spawned per run (Add Droplet button and rain timer together)
MaxSpawns == 1
\* slider input events per run
MaxConfigs == 1
\* Live ticks per run
MaxTicks == 1
\* the same four, for the runs that start from the history of MAX_HISTORY frames
MaxCmdsNearFull == 1
MaxSpawnsNearFull == 1
MaxConfigsNearFull == 1
MaxTicksNearFull == 2
\* the same four, for the runs that start one Live tick before a splash
MaxCmdsNearImpact == 1
MaxSpawnsNearImpact == 1
MaxConfigsNearImpact == 1
MaxTicksNearImpact == 2
\* Live ticks of the drop of one droplet on the flat surface
MaxTicksDrop == 430

---------------------------------------------------------------------------
(* Fixed-point numbers with the IEEE-754 specials. *)

\* n stands for n / SCALE
SCALE == 1000
NaN == 2000000001
PosInf == 2000000000
NegInf == -2000000000

IsNaN(a) == a = NaN
IsInf(a) == a = PosInf \/ a = NegInf
IsFinite(a) == ~IsNaN(a) /\ ~IsInf(a)

IAbs(n) == IF n < 0 THEN -n ELSE n
Sgn(n) == IF n < 0 THEN -1 ELSE IF n > 0 THEN 1 ELSE 0
\* integer quotient rounded toward zero, b # 0
TDiv(a, b) == Sgn(a) * Sgn(b) * (IAbs(a) \div IAbs(b))
SignedInf(s) == IF s < 0 THEN NegInf ELSE PosInf

FNeg(a) == IF IsNaN(a) THEN NaN ELSE -a
FAbs(a) == IF IsNaN(a) THEN NaN ELSE IAbs(a)

FAdd(a, b) ==
    IF IsNaN(a) \/ IsNaN(b) THEN NaN
    ELSE IF IsInf(a) THEN (IF IsInf(b) /\ b # a THEN NaN ELSE a)
    ELSE IF IsInf(b) THEN b
    ELSE a + b

FSub(a, b) == FAdd(a, FNeg(b))

FMul(a, b) ==
    IF IsNaN(a) \/ IsNaN(b) THEN NaN
    ELSE IF IsInf(a) \/ IsInf(b)
         THEN (IF a = 0 \/ b = 0 THEN NaN ELSE SignedInf(Sgn(a) * Sgn(b)))
    ELSE TDiv(a * b, SCALE)

FDiv(a, b) ==
    IF IsNaN(a) \/ IsNaN(b) THEN NaN
    ELSE IF IsInf(a) THEN (IF IsInf(b) THEN NaN
                           ELSE SignedInf(Sgn(a) * (IF b < 0 THEN -1 ELSE 1)))
    ELSE IF IsInf(b) THEN 0
    ELSE IF b = 0 THEN (IF a = 0 THEN NaN ELSE SignedInf(Sgn(a)))
    ELSE TDiv(a * SCALE, b)

\* the ordered comparisons: false as soon as one side is NaN
FLt(a, b) == ~IsNaN(a) /\ ~IsNaN(b) /\ a < b
FLe(a, b) == ~IsNaN(a) /\ ~IsNaN(b) /\ a <= b
FGt(a, b) == FLt(b, a)

\* Math.max: NaN if either argument is NaN
FMax(a, b) == IF IsNaN(a) \/ IsNaN(b) THEN NaN ELSE IF a >= b THEN a ELSE b

\* floor of the square root of a natural number, by bisection
RECURSIVE SqrtBetween(_, _, _)
SqrtBetween(n, lo, hi) ==
    IF lo >= hi THEN lo
    ELSE LET mid == (lo + hi + 1) \div 2
         IN  IF mid * mid <= n THEN SqrtBetween(n, mid, hi)
                               ELSE SqrtBetween(n, lo, mid - 1)
ISqrt(n) == SqrtBetween(n, 0, 46340)

\* Math.sqrt in fixed point
FSqrt(a) ==
    IF IsNaN(a) \/ a < 0 THEN NaN
    ELSE IF a = PosInf THEN PosInf
    ELSE ISqrt(a * SCALE)

\* Math.cos in fixed point: the argument is folded into [0, pi/2] and the
\* Taylor polynomial of degree 6 is evaluated there
PI == 3142
CosFolded(r) ==
    LET r2 == (r * r) \div SCALE
        r4 == (r2 * r2) \div SCALE
        r6 == (r4 * r2) \div SCALE
    IN  SCALE - (r2 \div 2) + (r4 \div 24) - (r6 \div 720)
FCos(a) ==
    IF ~IsFinite(a) THEN NaN
    ELSE LET m == IAbs(a) % (2 * PI)
             r == IF m > PI THEN 2 * PI - m ELSE m
         IN  IF 2 * r > PI THEN -CosFolded(PI - r) ELSE CosFolded(r)
\* Math.sin(a) = cos(a - pi/2)
FSin(a) == IF ~IsFinite(a) THEN NaN ELSE FCos(a - (PI \div 2))

---------------------------------------------------------------------------
(* THREE.Vector3, as a triple <<x, y, z>>. *)

Vec(x, y, z) == <<x, y, z>>
VAdd(u, v) == <<FAdd(u[1], v[1]), FAdd(u[2], v[2]), FAdd(u[3], v[3])>>
VMulScalar(v, s) == <<FMul(v[1], s), FMul(v[2], s), FMul(v[3], s)>>
VDivScalar(v, s) == <<FDiv(v[1], s), FDiv(v[2], s), FDiv(v[3], s)>>
VNegate(v) == <<FNeg(v[1]), FNeg(v[2]), FNeg(v[3])>>
VLengthSq(v) == FAdd(FAdd(FMul(v[1], v[1]), FMul(v[2], v[2])), FMul(v[3], v[3]))
VLength(v) == FSqrt(VLengthSq(v))
\* normalize(): divideScalar(length() || 1)
VNormalize(v) ==
    LET len == VLength(v)
    IN  VDivScalar(v, IF IsNaN(len) \/ len = 0 THEN SCALE ELSE len)

---------------------------------------------------------------------------
(* Droplet3D *)

\* the step of animate, 0.016
DT == 16
\* the y every droplet is spawned at, 40
DROP_HEIGHT == 40000
\* bounceThreshold, 25.0
BOUNCE_THRESHOLD == 25000
\* the surface velocity a bounce needs to exceed, -2
RETREAT_LIMIT == -2000
\* the damping of a bounce, 0.8
RESTITUTION == 800
\* the share of the surface velocity a bounce adds, 0.5
SURFACE_KICK == 500
\* the y below which a droplet is killed, -50
FLOOR_Y == -50000
\* the speed squared above which drag applies, 0.0001 (below the grid: 0)
DRAG_EPSILON == 0
\* the factor of deltaTime in the position step, 10
VISUAL_TIME_SCALE == 10000
\* radius = size * 0.1
RADIUS_PER_SIZE == 100

\* new Droplet3D(x, y, z, mass, size, scene); id is the identity of the object
NewDroplet(id, x, y, z, m, size) ==
    [id |-> id,
     position |-> Vec(x, y, z),
     velocity |-> Vec(0, 0, 0),
     mass |-> m,
     radius |-> FMul(size, RADIUS_PER_SIZE),
     isDead |-> FALSE]

\* the mutant of HandleSurfaceCollision that bounces when either condition holds
HandleSurfaceCollisionOr(d, surfaceY, surfaceVelY) ==
    LET relativeVelY == FSub(d.velocity[2], surfaceVelY)
        impactSpeed == FAbs(relativeVelY)
    IN  IF FLt(relativeVelY, 0)
        THEN IF FLt(impactSpeed, BOUNCE_THRESHOLD) \/ FGt(surfaceVelY, RETREAT_LIMIT)
             THEN [d EXCEPT
                     !.velocity[2] = FAdd(FMul(FAbs(d.velocity[2]), RESTITUTION),
                                          FMax(0, FMul(surfaceVelY, SURFACE_KICK))),
                     !.position[2] = FAdd(surfaceY, d.radius)]
             ELSE [d EXCEPT !.isDead = TRUE]
        ELSE d

\* the mutant of HandleSurfaceCollision without the bounce: every impact kills
HandleSurfaceCollisionSplash(d, surfaceY, surfaceVelY) ==
    LET relativeVelY == FSub(d.velocity[2], surfaceVelY)
    IN  IF FLt(relativeVelY, 0) THEN [d EXCEPT !.isDead = TRUE] ELSE d

\* the mutant of HandleSurfaceCollision that scales velocity.y without Math.abs
HandleSurfaceCollisionNoAbs(d, surfaceY, surfaceVelY) ==
    LET relativeVelY == FSub(d.velocity[2], surfaceVelY)
        impactSpeed == FAbs(relativeVelY)
    IN  IF FLt(relativeVelY, 0)
        THEN IF FLt(impactSpeed, BOUNCE_THRESHOLD) /\ FGt(surfaceVelY, RETREAT_LIMIT)
             THEN [d EXCEPT
                     !.velocity[2] = FAdd(FMul(d.velocity[2], RESTITUTION),
                                          FMax(0, FMul(surfaceVelY, SURFACE_KICK))),
                     !.position[2] = FAdd(surfaceY, d.radius)]
             ELSE [d EXCEPT !.isDead = TRUE]
        ELSE d

\* the mutant of HandleSurfaceCollision that tests relativeVelY <= 0
HandleSurfaceCollisionLe(d, surfaceY, surfaceVelY) ==
    LET relativeVelY == FSub(d.velocity[2], surfaceVelY)
        impactSpeed == FAbs(relativeVelY)
    IN  IF FLe(relativeVelY, 0)
        THEN IF FLt(impactSpeed, BOUNCE_THRESHOLD) /\ FGt(surfaceVelY, RETREAT_LIMIT)
             THEN [d EXCEPT
                     !.velocity[2] = FAdd(FMul(FAbs(d.velocity[2]), RESTITUTION),
                                          FMax(0, FMul(surfaceVelY, SURFACE_KICK))),
                     !.position[2] = FAdd(surfaceY, d.radius)]
             ELSE [d EXCEPT !.isDead = TRUE]
        ELSE d

\* Droplet3D.handleSurfaceCollision(surfaceY, surfaceVelY, time)
HandleSurfaceCollision(d, surfaceY, surfaceVelY) ==
    LET relativeVelY == FSub(d.velocity[2], surfaceVelY)
        impactSpeed == FAbs(relativeVelY)
    IN  IF FLt(relativeVelY, 0)
        THEN IF FLt(impactSpeed, BOUNCE_THRESHOLD) /\ FGt(surfaceVelY, RETREAT_LIMIT)
             THEN [d EXCEPT
                     !.velocity[2] = FAdd(FMul(FAbs(d.velocity[2]), RESTITUTION),
                                          FMax(0, FMul(surfaceVelY, SURFACE_KICK))),
                     !.position[2] = FAdd(surfaceY, d.radius)]
             ELSE [d EXCEPT !.isDead = TRUE]
        ELSE d

\* Droplet3D.update(deltaTime, gravity, airResistance, surfaceY, surfaceVelY, time)
Update(d, deltaTime, g, c, surfaceY, surfaceVelY) ==
    LET gravityForce == Vec(0, FNeg(FMul(d.mass, g)), 0)
        speedSq == VLengthSq(d.velocity)
        force == IF FGt(speedSq, DRAG_EPSILON)
                 THEN VAdd(gravityForce,
                           VMulScalar(VNegate(VNormalize(d.velocity)), FMul(c, speedSq)))
                 ELSE gravityForce
        acceleration == VDivScalar(force, d.mass)
        velocity == VAdd(d.velocity, VMulScalar(acceleration, deltaTime))
        position == VAdd(d.position,
                         VMulScalar(velocity, FMul(deltaTime, VISUAL_TIME_SCALE)))
        moved == [d EXCEPT !.velocity = velocity, !.position = position]
        hit == IF FLe(FSub(position[2], d.radius), surfaceY)
               THEN HandleSurfaceCollision(moved, surfaceY, surfaceVelY)
               ELSE moved
    IN  IF FLt(hit.position[2], FLOOR_Y) THEN [hit EXCEPT !.isDead = TRUE] ELSE hit

---------------------------------------------------------------------------
(* SimulatorAdvanced: the state *)

VARIABLES
    droplets,       \* this.droplets, the live collection, in array order
    isRunning,      \* this.isRunning
    time,           \* this.time
    rainMode,       \* this.rainMode
    rainInterval,   \* this.rainInterval: a timer handle, 0 for null
    timers,         \* the interval timers of the host that are active
    gravity,        \* this.gravity
    mass,           \* this.mass
    airResistance,  \* this.airResistance
    freq,           \* this.freq
    amp,            \* this.amp
    history,        \* this.history
    isReplaying,    \* this.isReplaying
    replayFrame,    \* this.replayFrame, an index from 0
    nextId,         \* the number of Droplet3D objects constructed so far
    last,           \* history variable: the handler that ran last
    ran,            \* history variable: the branches of animate the last handler ran
    rp,             \* history variable: the live state at the entry of Replay, kept
                    \* while only scrubs and animation cycles have run since
    appended,       \* history variable: the frames appended since the last reset
    budget,         \* what the exploration may still do
    probe           \* the droplet and surface a single collision or update is tried on

vars == <<droplets, isRunning, time, rainMode, rainInterval, timers, gravity, mass,
          airResistance, freq, amp, history, isReplaying, replayFrame, nextId,
          last, ran, rp, appended, budget, probe>>

config == <<gravity, mass, airResistance, freq, amp>>
rain == <<rainMode, rainInterval, timers>>
replay == <<isReplaying, replayFrame>>

\* this.MAX_HISTORY = 60 * 20
MAX_HISTORY == 60 * 20
\* this.dropletSize = 8, which no handler changes
dropletSize == 8000
\* the wave number k = 0.2
WAVE_K == 200
\* omega = this.freq * 0.1
OMEGA_PER_FREQ == 100
\* the reference frequency of the time step, 30
REFERENCE_FREQ == 30000

\* the handles setInterval can return
TimerIds == 1..3
\* the values (Math.random() - 0.5) * 40 is drawn from, for x and for z
SpawnXs == {0, 5000}
SpawnZs == {0}
\* the values parseFloat(e.target.value) is drawn from, per slider
SliderInputs ==
    [gravity |-> {100000},
     mass |-> {NaN, 0},
     airResistance |-> {100},
     freq |-> {0},
     amp |-> {NaN}]
\* the values parseInt(e.target.value) is drawn from
ScrubInputs == -1..1

NoReplayEntry == [active |-> FALSE, droplets |-> <<>>, time |-> 0, cycled |-> FALSE]
NoProbe == [phase |-> "none"]

---------------------------------------------------------------------------
(* SimulatorAdvanced: the wave field and the history *)

\* getWaveHeight(x, z, t)
GetWaveHeight(x, z, t) ==
    LET omega == FMul(freq, OMEGA_PER_FREQ)
    IN  FMul(FMul(FMul(amp, FCos(FMul(WAVE_K, x))), FCos(FMul(WAVE_K, z))),
             FCos(FMul(omega, t)))

\* getSurfaceVelY(x, z, t)
GetSurfaceVelY(x, z, t) ==
    LET omega == FMul(freq, OMEGA_PER_FREQ)
    IN  FMul(FMul(FMul(FMul(FNeg(amp), omega), FCos(FMul(WAVE_K, x))),
                  FCos(FMul(WAVE_K, z))),
             FSin(FMul(omega, t)))

\* the snapshot recordFrame builds
Snapshot(ds, t) ==
    [droplets |-> [i \in 1..Len(ds) |->
                     [pos |-> ds[i].position, radius |-> ds[i].radius,
                      dead |-> ds[i].isDead]],
     waterTime |-> t]

\* the mutant of RecordFrame that drops the newest frame instead of the oldest
RecordFramePop(h, ds, t) ==
    Append(IF Len(h) > MAX_HISTORY THEN SubSeq(h, 1, Len(h) - 1) ELSE h, Snapshot(ds, t))

\* the mutant of RecordFrame whose frames all share the array of the newest one
RecordFrameShared(h, ds, t) ==
    LET kept == IF Len(h) > MAX_HISTORY THEN Tail(h) ELSE h
        s == Snapshot(ds, t)
    IN  Append([i \in 1..Len(kept) |-> [kept[i] EXCEPT !.droplets = s.droplets]], s)

\* recordFrame(): the history after it
RecordFrame(h, ds, t) ==
    Append(IF Len(h) > MAX_HISTORY THEN Tail(h) ELSE h, Snapshot(ds, t))

\* ds without its element at index i (splice(i, 1))
Splice(ds, i) == SubSeq(ds, 1, i - 1) \o SubSeq(ds, i + 1, Len(ds))

\* the mutant of UpdateFrom that runs forward, from index j up, and so steps over
\* the droplet that a splice has moved to the index just handled
RECURSIVE UpdateForward(_, _, _)
UpdateForward(ds, j, t) ==
    IF j > Len(ds) THEN ds
    ELSE LET d == ds[j]
             sY == GetWaveHeight(d.position[1], d.position[3], t)
             sVy == GetSurfaceVelY(d.position[1], d.position[3], t)
             u == Update(d, DT, gravity, airResistance, sY, sVy)
         IN  UpdateForward(IF u.isDead THEN Splice(ds, j) ELSE [ds EXCEPT ![j] = u],
                           j + 1, t)
UpdateFromForward(ds, i, t) == UpdateForward(ds, 1, t)

\* the mutant of UpdateFrom that leaves the dead droplets in the collection
RECURSIVE UpdateFromKeepDead(_, _, _)
UpdateFromKeepDead(ds, i, t) ==
    IF i < 1 THEN ds
    ELSE LET d == ds[i]
             sY == GetWaveHeight(d.position[1], d.position[3], t)
             sVy == GetSurfaceVelY(d.position[1], d.position[3], t)
             u == Update(d, DT, gravity, airResistance, sY, sVy)
         IN  UpdateFromKeepDead([ds EXCEPT ![i] = u], i - 1, t)

\* the loop of animate over the droplets, from index i down to 1
RECURSIVE UpdateFrom(_, _, _)
UpdateFrom(ds, i, t) ==
    IF i < 1 THEN ds
    ELSE LET d == ds[i]
             sY == GetWaveHeight(d.position[1], d.position[3], t)
             sVy == GetSurfaceVelY(d.position[1], d.position[3], t)
             u == Update(d, DT, gravity, airResistance, sY, sVy)
         IN  UpdateFrom(IF u.isDead THEN Splice(ds, i) ELSE [ds EXCEPT ![i] = u],
                        i - 1, t)

\* the time after a Live tick: this.time += dt * (this.freq / 30)
NextTime == FAdd(time, FMul(DT, FDiv(freq, REFERENCE_FREQ)))

---------------------------------------------------------------------------
(* SimulatorAdvanced: the handlers *)

Spend(what) == budget' = [budget EXCEPT ![what] = @ - 1]

\* the constructor: the fields as initialised, and the first animate(0), which
\* finds neither flag set
Constructed ==
    /\ droplets = <<>>
    /\ isRunning = FALSE
    /\ time = 0
    /\ rainMode = FALSE
    /\ rainInterval = 0
    /\ timers = {}
    /\ gravity = 9800
    /\ mass = 5000
    /\ airResistance = 20
    /\ freq = 30000
    /\ amp = 500
    /\ history = <<>>
    /\ isReplaying = FALSE
    /\ replayFrame = 0
    /\ nextId = 0
    /\ last = "constructor"
    /\ ran = {}
    /\ rp = NoReplayEntry
    /\ appended = <<>>

\* startBtn.onclick
Start ==
    /\ budget.cmds > 0
    /\ Spend("cmds")
    /\ isRunning' = TRUE
    /\ isReplaying' = FALSE
    /\ last' = "start"
    /\ ran' = {}
    /\ rp' = NoReplayEntry
    /\ UNCHANGED <<droplets, time, rain, config, history, replayFrame, nextId,
                   appended, probe>>

\* pauseBtn.onclick
Pause ==
    /\ budget.cmds > 0
    /\ Spend("cmds")
    /\ isRunning' = FALSE
    /\ last' = "pause"
    /\ ran' = {}
    /\ rp' = NoReplayEntry
    /\ UNCHANGED <<droplets, time, rain, config, history, replay, nextId,
                   appended, probe>>

\* spawnDroplet(), with x and z the two random draws
Spawned(x, z) ==
    /\ budget.spawns > 0
    /\ Spend("spawns")
    /\ droplets' = Append(droplets,
                          NewDroplet(nextId + 1, x, DROP_HEIGHT, z, mass, dropletSize))
    /\ nextId' = nextId + 1
    /\ rp' = NoReplayEntry
    /\ UNCHANGED <<isRunning, time, rain, config, history, replay, appended, probe>>

\* addDropletBtn.onclick
SpawnDroplet ==
    /\ \E x \in SpawnXs, z \in SpawnZs : Spawned(x, z)
    /\ last' = "spawnDroplet"
    /\ ran' = {}

\* the callback of the rain interval, run by the host for an active timer
RainFire ==
    /\ timers # {}
    /\ \E x \in SpawnXs, z \in SpawnZs : Spawned(x, z)
    /\ last' = "rainFire"
    /\ ran' = {}

\* the mutant of RainToggled that does not keep the handle setInterval returns
RainToggledLostHandle(rm, run, ri, ts) ==
    IF ~rm
    THEN LET id == CHOOSE i \in TimerIds \ (ts \cup {ri}) : TRUE
         IN  [rainMode |-> TRUE, isRunning |-> TRUE, rainInterval |-> ri,
              timers |-> ts \cup {id}]
    ELSE [rainMode |-> FALSE, isRunning |-> run, rainInterval |-> ri,
          timers |-> ts \ {ri}]

\* the mutant of RainToggled that never clears the interval
RainToggledNoClear(rm, run, ri, ts) ==
    IF ~rm
    THEN LET id == CHOOSE i \in TimerIds \ (ts \cup {ri}) : TRUE
         IN  [rainMode |-> TRUE, isRunning |-> TRUE, rainInterval |-> id,
              timers |-> ts \cup {id}]
    ELSE [rainMode |-> FALSE, isRunning |-> run, rainInterval |-> ri, timers |-> ts]

\* toggleRain(): the fields after it; setInterval returns a handle that is not in use
RainToggled(rm, run, ri, ts) ==
    IF ~rm
    THEN LET id == CHOOSE i \in TimerIds \ (ts \cup {ri}) : TRUE
         IN  [rainMode |-> TRUE, isRunning |-> TRUE, rainInterval |-> id,
              timers |-> ts \cup {id}]
    ELSE [rainMode |-> FALSE, isRunning |-> run, rainInterval |-> ri,
          timers |-> ts \ {ri}]

\* rainModeBtn.onclick
ToggleRain ==
    /\ budget.cmds > 0
    /\ rainMode \/ TimerIds \ (timers \cup {rainInterval}) # {}
    /\ Spend("cmds")
    /\ LET r == RainToggled(rainMode, isRunning, rainInterval, timers)
       IN  /\ rainMode' = r.rainMode
           /\ isRunning' = r.isRunning
           /\ rainInterval' = r.rainInterval
           /\ timers' = r.timers
    /\ last' = "toggleRain"
    /\ ran' = {}
    /\ rp' = NoReplayEntry
    /\ UNCHANGED <<droplets, time, config, history, replay, nextId, appended, probe>>

\* resetBtn.onclick: reset()
Reset ==
    /\ budget.cmds > 0
    /\ Spend("cmds")
    /\ droplets' = <<>>
    /\ history' = <<>>
    /\ time' = 0
    /\ isReplaying' = FALSE
    /\ LET r == IF rainMode
                THEN RainToggled(rainMode, FALSE, rainInterval, timers)
                ELSE [rainMode |-> rainMode, isRunning |-> FALSE,
                      rainInterval |-> rainInterval, timers |-> timers]
       IN  /\ rainMode' = r.rainMode
           /\ isRunning' = r.isRunning
           /\ rainInterval' = r.rainInterval
           /\ timers' = r.timers
    /\ last' = "reset"
    /\ ran' = {}
    /\ rp' = NoReplayEntry
    /\ appended' = <<>>
    /\ UNCHANGED <<config, replayFrame, nextId, probe>>

\* the input listener of a slider bound by bindSlider(id, target, displayId)
SetConfig ==
    /\ budget.configs > 0
    /\ Spend("configs")
    /\ \E target \in DOMAIN SliderInputs : \E v \in SliderInputs[target] :
          /\ gravity' = IF target = "gravity" THEN v ELSE gravity
          /\ mass' = IF target = "mass" THEN v ELSE mass
          /\ airResistance' = IF target = "airResistance" THEN v ELSE airResistance
          /\ freq' = IF target = "freq" THEN v ELSE freq
          /\ amp' = IF target = "amp" THEN v ELSE amp
    /\ last' = "setConfig"
    /\ ran' = {}
    /\ rp' = NoReplayEntry
    /\ UNCHANGED <<droplets, isRunning, time, rain, history, replay, nextId,
                   appended, probe>>

\* the mutant of StartReplay that stops the run on entry and leaves it stopped
StartReplayStaysPaused ==
    /\ budget.cmds > 0
    /\ Spend("cmds")
    /\ isReplaying' = ~isReplaying
    /\ isRunning' = (isRunning /\ ~isReplaying')
    /\ replayFrame' = IF isReplaying' THEN Len(history) - 1 ELSE replayFrame
    /\ last' = "startReplay"
    /\ ran' = {}
    /\ rp' = IF isReplaying'
             THEN [active |-> TRUE, droplets |-> droplets, time |-> time,
                   cycled |-> FALSE]
             ELSE rp
    /\ UNCHANGED <<droplets, time, rain, config, history, nextId, appended, probe>>

\* replayBtn.onclick: startReplay()
StartReplay ==
    /\ budget.cmds > 0
    /\ Spend("cmds")
    /\ isReplaying' = ~isReplaying
    /\ isRunning' = ~isReplaying'
    /\ replayFrame' = IF isReplaying' THEN Len(history) - 1 ELSE replayFrame
    /\ last' = "startReplay"
    /\ ran' = {}
    /\ rp' = IF isReplaying'
             THEN [active |-> TRUE, droplets |-> droplets, time |-> time,
                   cycled |-> FALSE]
             ELSE rp
    /\ UNCHANGED <<droplets, time, rain, config, history, nextId, appended, probe>>

\* the input listener of replaySlider
Scrub ==
    /\ budget.cmds > 0
    /\ Spend("cmds")
    /\ \E v \in ScrubInputs :
          replayFrame' = IF isReplaying THEN v ELSE replayFrame
    /\ last' = "scrub"
    /\ ran' = {}
    /\ rp' = IF isReplaying THEN rp ELSE NoReplayEntry
    /\ UNCHANGED <<droplets, isRunning, time, rain, config, history, isReplaying,
                   nextId, appended, probe>>

\* the mutant of Branches in which a Replay cycle goes on to tick
BranchesReplayTicks(replaying, running) ==
    IF replaying THEN {"replay", "live"}
    ELSE IF running THEN {"live"}
    ELSE {}

\* the mutant of Branches that ticks whenever it does not replay
BranchesIgnorePause(replaying, running) ==
    IF replaying THEN {"replay"} ELSE {"live"}

\* the mutant of Branches without the else: two independent tests
BranchesNoElse(replaying, running) ==
    (IF replaying THEN {"replay"} ELSE {}) \cup (IF running THEN {"live"} ELSE {})

\* the branches of animate a cycle runs: if (isReplaying) ... else if (isRunning) ...
Branches(replaying, running) ==
    IF replaying THEN {"replay"}
    ELSE IF running THEN {"live"}
    ELSE {}

\* the mutant of HistoryAfter that records whenever a branch ran
HistoryAfterAnyBranch(b, ds, t) ==
    IF b # {} THEN RecordFrame(history, ds, t) ELSE history

\* the history after a cycle that ran the branches b and left droplets ds, time t
HistoryAfter(b, ds, t) ==
    IF "live" \in b THEN RecordFrame(history, ds, t) ELSE history

\* animate(now): one animation cycle
Animate ==
    LET b == Branches(isReplaying, isRunning)
        live == "live" \in b
        t == IF live THEN NextTime ELSE time
        ds == IF live THEN UpdateFrom(droplets, Len(droplets), t) ELSE droplets
        h == HistoryAfter(b, ds, t)
    IN  /\ live => budget.ticks > 0
        /\ budget' = IF live THEN [budget EXCEPT !.ticks = @ - 1] ELSE budget
        /\ time' = t
        /\ droplets' = ds
        /\ history' = h
        /\ appended' = IF live THEN Append(appended, Snapshot(ds, t)) ELSE appended
        /\ ran' = b
        /\ last' = "animate"
        /\ rp' = IF isReplaying
                 THEN [rp EXCEPT !.cycled = rp.active]
                 ELSE NoReplayEntry
        /\ UNCHANGED <<isRunning, rain, config, replay, nextId, probe>>

---------------------------------------------------------------------------
(* The specifications *)

Init ==
    /\ Constructed
    /\ budget = [cmds |-> MaxCmds, spawns |-> MaxSpawns, configs |-> MaxConfigs,
                 ticks |-> MaxTicks]
    /\ probe = NoProbe

Next ==
    \/ Start
    \/ Pause
    \/ Reset
    \/ SpawnDroplet
    \/ RainFire
    \/ ToggleRain
    \/ SetConfig
    \/ StartReplay
    \/ Scrub
    \/ Animate

Spec == Init /\ [][Next]_vars

\* The state after start and MAX_HISTORY Live ticks of the simulator as
\* constructed (no droplet, default sliders): every tick added DT to the time and
\* appended one frame.
NearFullFrames ==
    [k \in 1..MAX_HISTORY |-> [droplets |-> <<>>, waterTime |-> DT * k]]

NearFull ==
    /\ droplets = <<>>
    /\ isRunning = TRUE
    /\ time = DT * MAX_HISTORY
    /\ rainMode = FALSE
    /\ rainInterval = 0
    /\ timers = {}
    /\ gravity = 9800
    /\ mass = 5000
    /\ airResistance = 20
    /\ freq = 30000
    /\ amp = 500
    /\ history = NearFullFrames
    /\ isReplaying = FALSE
    /\ replayFrame = 0
    /\ nextId = 0
    /\ last = "animate"
    /\ ran = {"live"}
    /\ rp = NoReplayEntry
    /\ appended = NearFullFrames

\* the run that reaches NearFull from the constructor: start, then Live ticks
InitLongRun ==
    /\ Constructed
    /\ budget = [cmds |-> 1, spawns |-> 0, configs |-> 0, ticks |-> MAX_HISTORY]
    /\ probe = NoProbe

SpecLongRun == InitLongRun /\ [][Next]_vars

\* NearFull is reached by SpecLongRun: this invariant of it is violated
NearFullNotReached == ~(NearFull /\ budget.cmds = 0 /\ budget.ticks = 0)

InitNearFull ==
    /\ NearFull
    /\ budget = [cmds |-> MaxCmdsNearFull, spawns |-> MaxSpawnsNearFull,
                 configs |-> MaxConfigsNearFull, ticks |-> MaxTicksNearFull]
    /\ probe = NoProbe

SpecNearFull == InitNearFull /\ [][Next]_vars

\* The state after gravity is set to 100, one droplet is added at x = 0, z = 0,
\* start is clicked and Live ticks have run until the droplet is one tick above
\* a splash: FallYs are its heights after each tick, FallVelY its velocity after
\* the last, and every tick has recorded it and added DT to the time.
FallYs == <<39744, 39233, 38466, 37443, 36165, 34631, 32842, 30799,
            28501, 25950, 23145, 20088, 16778, 13217, 9405, 5343>>
FallVelY == -25391
FallTicks == Len(FallYs)

FallFrames ==
    [k \in 1..FallTicks |->
        [droplets |-> <<[pos |-> Vec(0, FallYs[k], 0),
                         radius |-> FMul(dropletSize, RADIUS_PER_SIZE),
                         dead |-> FALSE]>>,
         waterTime |-> DT * k]]

NearImpact ==
    /\ isRunning = TRUE
    /\ rainMode = FALSE
    /\ rainInterval = 0
    /\ timers = {}
    /\ gravity = 100000
    /\ mass = 5000
    /\ airResistance = 20
    /\ freq = 30000
    /\ amp = 500
    /\ isReplaying = FALSE
    /\ replayFrame = 0
    /\ nextId = 1
    /\ last = "animate"
    /\ ran = {"live"}
    /\ rp = NoReplayEntry
    /\ droplets = <<[NewDroplet(1, 0, FallYs[FallTicks], 0, mass, dropletSize)
                       EXCEPT !.velocity = Vec(0, FallVelY, 0)]>>
    /\ time = DT * FallTicks
    /\ history = FallFrames
    /\ appended = FallFrames

\* the run that reaches NearImpact from the constructor
InitFall ==
    /\ Constructed
    /\ budget = [cmds |-> 1, spawns |-> 1, configs |-> 1, ticks |-> FallTicks]
    /\ probe = NoProbe

SpecFall == InitFall /\ [][Next]_vars

\* NearImpact is reached by SpecFall: this invariant of it is violated
NearImpactNotReached ==
    ~(NearImpact /\ budget = [cmds |-> 0, spawns |-> 0, configs |-> 0, ticks |-> 0])

InitNearImpact ==
    /\ NearImpact
    /\ budget = [cmds |-> MaxCmdsNearImpact, spawns |-> MaxSpawnsNearImpact,
                 configs |-> MaxConfigsNearImpact, ticks |-> MaxTicksNearImpact]
    /\ probe = NoProbe

SpecNearImpact == InitNearImpact /\ [][Next]_vars

---------------------------------------------------------------------------
(* The drop of one droplet on a flat surface: the sliders of amplitude and   *)
(* frequency are at 0, the others as constructed, one droplet is added and   *)
(* start is clicked; from there the browser runs animation cycles for ever.  *)

InitDrop ==
    /\ isRunning = TRUE
    /\ time = 0
    /\ rainMode = FALSE
    /\ rainInterval = 0
    /\ timers = {}
    /\ gravity = 9800
    /\ mass = 5000
    /\ airResistance = 20
    /\ freq = 0
    /\ amp = 0
    /\ history = <<>>
    /\ isReplaying = FALSE
    /\ replayFrame = 0
    /\ nextId = 1
    /\ last = "start"
    /\ ran = {}
    /\ rp = NoReplayEntry
    /\ appended = <<>>
    /\ \E x \in SpawnXs, z \in SpawnZs :
          droplets = <<NewDroplet(1, x, DROP_HEIGHT, z, mass, dropletSize)>>
    /\ budget = [cmds |-> 0, spawns |-> 0, configs |-> 0, ticks |-> MaxTicksDrop]
    /\ probe = NoProbe

\* A step of animate in this run, told by the tick it counts: the run is Live
\* throughout, so these are the steps of Animate and are possible when it is.
LiveCycle == budget.ticks > 0 /\ budget' = [budget EXCEPT !.ticks = @ - 1]

\* requestAnimationFrame(animate) at the end of animate schedules the next cycle:
\* a cycle that can run does run
SpecDrop == InitDrop /\ [][Animate]_vars /\ WF_budget(LiveCycle)

---------------------------------------------------------------------------
(* One call of handleSurfaceCollision on a droplet and a surface drawn from *)
(* bounded sets.                                                           *)

ProbeVelYs == {-30000, -26000, -25000, -24999, -24000, -10000, -1000, 0, 5000}
ProbeSurfaceVelYs == {-30000, -3000, -2000, -1999, 0, 1500, 3000, 6000}
ProbeSurfaceYs == {0, 300}
ProbeYs == {-100, 500, 800}
ProbeXZs == {<<0, 0>>, <<5000, -3000>>}

InitCollision ==
    /\ Constructed
    /\ budget = [cmds |-> 0, spawns |-> 0, configs |-> 0, ticks |-> 0]
    /\ \E vy \in ProbeVelYs, sVy \in ProbeSurfaceVelYs, sY \in ProbeSurfaceYs,
          y \in ProbeYs, xz \in ProbeXZs :
          probe = [phase |-> "in",
                   d |-> [NewDroplet(1, xz[1], y, xz[2], mass, dropletSize)
                            EXCEPT !.velocity = Vec(0, vy, 0)],
                   sY |-> sY, sVy |-> sVy]

Collide ==
    /\ probe.phase = "in"
    /\ probe' = [phase |-> "out", d |-> probe.d, sY |-> probe.sY, sVy |-> probe.sVy,
                 out |-> HandleSurfaceCollision(probe.d, probe.sY, probe.sVy)]
    /\ UNCHANGED <<droplets, isRunning, time, rain, config, history, replay, nextId,
                   last, ran, rp, appended, budget>>

SpecCollision == InitCollision /\ [][Collide]_vars

---------------------------------------------------------------------------
(* One call of update, with the sliders as constructed, on a droplet near the  *)
(* floor and a surface drawn from bounded sets.                                *)

ProbeFloorYs == {-60000, -50100, -50001, -50000, -49000}

InitUpdate ==
    /\ Constructed
    /\ budget = [cmds |-> 0, spawns |-> 0, configs |-> 0, ticks |-> 0]
    /\ \E vy \in ProbeVelYs, sVy \in ProbeSurfaceVelYs, sY \in ProbeSurfaceYs,
          y \in ProbeFloorYs :
          probe = [phase |-> "update",
                   d |-> [NewDroplet(1, 0, y, 0, mass, dropletSize)
                            EXCEPT !.velocity = Vec(0, vy, 0)],
                   sY |-> sY, sVy |-> sVy]

UpdateOnce ==
    /\ probe.phase = "update"
    /\ probe' = [phase |-> "updated", d |-> probe.d, sY |-> probe.sY,
                 sVy |-> probe.sVy,
                 out |-> Update(probe.d, DT, gravity, airResistance,
                                probe.sY, probe.sVy)]
    /\ UNCHANGED <<droplets, isRunning, time, rain, config, history, replay, nextId,
                   last, ran, rp, appended, budget>>

SpecUpdate == InitUpdate /\ [][UpdateOnce]_vars

---------------------------------------------------------------------------
(* The claims *)

\* C1: the history never holds more than MAX_HISTORY frames.
\* (Violated: recordFrame tests length > MAX_HISTORY before it pushes.)
HistoryWithinMax == Len(history) <= MAX_HISTORY

\* C2: the history is the contiguous suffix, in insertion order, of the frames
\* appended since the last reset; nothing is evicted while the appended frames
\* number at most MAX_HISTORY, and at least MAX_HISTORY frames are retained after.
HistoryIsFifo ==
    LET n == Len(appended)
        m == Len(history)
    IN  /\ m <= n
        /\ history = SubSeq(appended, n - m + 1, n)
        /\ n <= MAX_HISTORY => m = n
        /\ n > MAX_HISTORY => m >= MAX_HISTORY
FifoEvicted ==
    /\ last = "animate"
    /\ Len(appended) > Len(history)
    /\ Len(history) > 0

\* C3: after toggleReplay, any scrubs and animation cycles, and toggleReplay again,
\* the live droplets and the time are those of the entry (rp holds them for as long
\* as only such steps have run since the entry).
ReplayLeavesLiveState == rp.active => droplets = rp.droplets /\ time = rp.time
ReplayRoundTrip ==
    /\ rp.active
    /\ rp.cycled
    /\ last = "startReplay"
    /\ ~isReplaying
    /\ history # <<>>
    /\ droplets # <<>>
    /\ time > 0

\* C4: while isReplaying, no animation cycle, rain timer callback, spawnDroplet or
\* toggleRain changes the live droplets or the time.
\* (Violated: spawnDroplet pushes a droplet whatever the mode.)
NoLiveMutationInReplay ==
    [][(isReplaying /\ last' \in {"animate", "rainFire", "spawnDroplet", "toggleRain"})
         => (droplets' = droplets /\ time' = time)]_vars

\* C5: an animation cycle run while isReplaying leaves the history unchanged, and a
\* frame is appended only by a cycle run with isReplaying false and isRunning true.
ReplayNeverRecords ==
    [][/\ (last' = "animate" /\ isReplaying) => history' = history
       /\ (history' # history /\ history' # <<>>)
            => (last' = "animate" /\ ~isReplaying /\ isRunning)]_vars
ReplayCycleOverHistory ==
    /\ last = "animate"
    /\ ran = {"replay"}
    /\ isReplaying
    /\ isRunning
    /\ history # <<>>

\* C6: while isReplaying, 0 <= replayFrame <= history.length - 1.
\* (Violated: startReplay on an empty history stores -1, and the slider listener
\* stores the index it is given.)
CursorInRange == isReplaying => (0 <= replayFrame /\ replayFrame <= Len(history) - 1)

\* C7: no animation cycle runs both the replay render and the live tick.
LiveReplayExclusive == ~({"replay", "live"} \subseteq ran)
CycleWithBothFlags ==
    /\ last = "animate"
    /\ isReplaying
    /\ isRunning
    /\ ran = {"replay"}

\* C8: right after reset the droplets and the history are empty, the time is 0,
\* isReplaying, isRunning and rainMode are false and no rain timer is active.
ResetPostcondition ==
    last = "reset" =>
        /\ droplets = <<>>
        /\ history = <<>>
        /\ time = 0
        /\ ~isReplaying
        /\ ~isRunning
        /\ ~rainMode
        /\ timers = {}
        /\ ~ENABLED RainFire
ResetUnderRain ==
    /\ last = "reset"
    /\ rainInterval # 0
    /\ budget.cmds = MaxCmds - 2
    /\ budget.ticks < MaxTicks
    /\ nextId > 0

\* C9: mass > 0 and every configured value is finite.
\* (Violated: the slider listener stores parseFloat of its input as it is.)
ConfigValid ==
    /\ IsFinite(gravity) /\ IsFinite(mass) /\ IsFinite(airResistance)
    /\ IsFinite(freq) /\ IsFinite(amp)
    /\ mass > 0

\* C10: a collision with rel = velocity.y - sVy < 0 leaves the droplet alive if and
\* only if |rel| < 25 and sVy > -2, and dead otherwise; with |rel| >= 25 it is dead
\* whatever sVy is.
BounceOrSplash ==
    probe.phase = "out" =>
        LET rel == probe.d.velocity[2] - probe.sVy
        IN  rel < 0 =>
              /\ ~probe.out.isDead <=> (-rel < BOUNCE_THRESHOLD /\ probe.sVy > RETREAT_LIMIT)
              /\ -rel >= BOUNCE_THRESHOLD => probe.out.isDead
HardImpactOnRisingSurface ==
    /\ probe.phase = "out"
    /\ probe.sVy > 0
    /\ probe.d.velocity[2] > -BOUNCE_THRESHOLD
    /\ probe.d.velocity[2] - probe.sVy <= -BOUNCE_THRESHOLD
    /\ probe.out.isDead

\* C11: a bounce (rel < 0, |rel| < 25, sVy > -2) leaves velocity.y equal to
\* |velocity.y| * 0.8 + max(0, sVy * 0.5), which is not negative, and position.y
\* equal to sY + radius; the x and z components of position and velocity, and
\* everything else of the droplet, are as before, and the droplet is alive.
BounceResult ==
    probe.phase = "out" =>
        LET v == probe.d.velocity[2]
            rel == v - probe.sVy
            kick == IF probe.sVy > 0 THEN (probe.sVy * 5) \div 10 ELSE 0
        IN  (rel < 0 /\ -rel < BOUNCE_THRESHOLD /\ probe.sVy > RETREAT_LIMIT) =>
              /\ probe.out.velocity[2] = (IAbs(v) * 8) \div 10 + kick
              /\ probe.out.velocity[2] >= 0
              /\ probe.out.position[2] = probe.sY + probe.d.radius
              /\ probe.out.position[1] = probe.d.position[1]
              /\ probe.out.position[3] = probe.d.position[3]
              /\ probe.out.velocity[1] = probe.d.velocity[1]
              /\ probe.out.velocity[3] = probe.d.velocity[3]
              /\ ~probe.out.isDead
              /\ probe.out = [probe.d EXCEPT !.velocity[2] = probe.out.velocity[2],
                                             !.position[2] = probe.out.position[2]]
\* velocity.y = -10 on a surface rising at 3 bounces to 9.5, off the origin
BounceAtMinusTenOnThree ==
    /\ probe.phase = "out"
    /\ probe.d.velocity[2] = -10000
    /\ probe.sVy = 3000
    /\ probe.d.position[1] # 0
    /\ probe.d.position[2] # probe.sY + probe.d.radius
    /\ probe.out.velocity[2] = 9500
    /\ probe.out.position[2] = probe.sY + probe.d.radius
    /\ ~probe.out.isDead

\* C12: a collision with rel = velocity.y - sVy >= 0 changes nothing of the droplet,
\* its position, velocity and dead flag included, also at or below the surface.
NoImpactChangesNothing ==
    probe.phase = "out" =>
        (probe.d.velocity[2] - probe.sVy >= 0 => probe.out = probe.d)
\* a droplet at rest relative to the surface, and below it, is left where it is
AtRestBelowSurface ==
    /\ probe.phase = "out"
    /\ probe.d.velocity[2] = probe.sVy
    /\ probe.d.position[2] - probe.d.radius < probe.sY
    /\ probe.out.position = probe.d.position
    /\ probe.out.velocity = probe.d.velocity
    /\ ~probe.out.isDead

\* C13: a droplet whose position.y is below -50 before an update is dead after it,
\* whatever its velocity, the surface and the collision branch taken.
\* (Violated: the floor test reads position.y after the move and after the bounce
\* has put the droplet back on the surface.)
FloorKill ==
    probe.phase = "updated" =>
        (probe.d.position[2] < FLOOR_Y => probe.out.isDead)

\* C14: a recorded frame never changes while it is in the history: every step
\* either empties the history (reset), or keeps every frame as it was, at its
\* index or, when the oldest is evicted, one index lower.
FramesImmutable ==
    [][\/ last' = "reset" /\ history' = <<>>
       \/ \E k \in 0..1 :
             /\ k <= Len(history)
             /\ Len(history') >= Len(history) - k
             /\ SubSeq(history', 1, Len(history) - k)
                  = SubSeq(history, k + 1, Len(history))]_vars
\* the tick that removed the droplet left the frames that show it as they were
FramesOutliveDroplet ==
    /\ last = "animate" /\ "live" \in ran
    /\ droplets = <<>>
    /\ Len(history) = FallTicks + 1
    /\ SubSeq(history, 1, FallTicks) = FallFrames
    /\ history[Len(history)].droplets = <<>>

Contact ==
    \E i \in 1..Len(droplets) : droplets[i].position[2] - droplets[i].radius <= 0

PausedFreezes ==
    [][/\ (last' = "animate" /\ ~isRunning) => UNCHANGED <<time, history, droplets>>
       /\ last' = "start" => UNCHANGED <<time, history, droplets>>]_vars
\* a cycle has run while a droplet in flight and a recorded history were paused
PausedCycle ==
    /\ last = "animate" /\ ran = {}
    /\ ~isRunning /\ ~isReplaying
    /\ history # <<>>
    /\ time > 0
    /\ Len(droplets) = 1 /\ droplets[1].velocity[2] < 0

\* C17: the live collection holds no droplet whose isDead is true, and no entry of
\* a recorded frame has its dead flag set.
NoDeadKept ==
    /\ \A i \in 1..Len(droplets) : ~droplets[i].isDead
    /\ \A k \in 1..Len(history) :
          \A j \in 1..Len(history[k].droplets) : ~history[k].droplets[j].dead
\* the tick in which the first droplet splashed, next to a second one that lives:
\* the collection and the frame of that tick hold the second only
SplashBesideSurvivor ==
    /\ last = "animate" /\ "live" \in ran
    /\ Len(history) = FallTicks + 1
    /\ nextId = 2
    /\ Len(droplets) = 1 /\ droplets[1].id = 2
    /\ Len(history[Len(history)].droplets) = 1
    /\ history[Len(history)].droplets[1].pos = droplets[1].position

\* d after one update on the surface under it at time t
UpdatedAt(d, t) ==
    Update(d, DT, gravity, airResistance,
           GetWaveHeight(d.position[1], d.position[3], t),
           GetSurfaceVelY(d.position[1], d.position[3], t))
IsAlive(d) == ~d.isDead

ExitReplayRuns ==
    [][(last' = "startReplay" /\ isReplaying) => (isRunning' /\ ~isReplaying')]_vars
\* Replay was entered from a simulator that had never run, rendered a cycle, and
\* was left: the simulator runs
RunsAfterReplayOfPaused ==
    /\ last = "startReplay"
    /\ ~isReplaying /\ isRunning
    /\ rp.active /\ rp.cycled
    /\ ~rainMode
    /\ history = <<>> /\ time = 0

\* C20: a rain interval timer is active if and only if rainMode is true, and at
\* most one timer is active; the active one is the one rainInterval holds.
RainTimerMatchesMode ==
    /\ (timers # {}) <=> rainMode
    /\ Cardinality(timers) <= 1
    /\ rainMode => timers = {rainInterval}
\* rain is on for the second time: the first timer was cleared, the second runs
RainOnAgain ==
    /\ last = "toggleRain"
    /\ rainMode
    /\ rainInterval = 2
    /\ timers = {2}

===========================================================================
